---- MODULE Spec2Model ----
(***************************************************************************)
(* hostnic-cni: the IPAM daemon's start-up (pkg/ipam/ipam.go) and the pod  *)
(* wiring driver (setupNS / tearDownNS).                                   *)
(*                                                                         *)
(* Three specifications share the kernel's policy-rule table:              *)
(*   Spec    the daemon: Start, setup, setupNic, prepareLocalPods          *)
(*   SpecNS  one plugin invocation at a time: setupNS and tearDownNS, one  *)
(*           netlink call per step                                         *)
(*   SpecRT  SpecNS with the trail of successful invocations recorded      *)
(***************************************************************************)
EXTENDS Integers, Sequences, FiniteSets, TLC

(***************************************************************************)
(* Bounds of the model                                                     *)
(***************************************************************************)
\* how many VPC CIDRs a caller may pass to setupNS
MaxCIDRs == 2
\* how many NICs the cloud reports as attached
MaxNICs == 2
\* how many pods the orchestrator lists
MaxPods == 2

(***************************************************************************)
(* Program constants                                                       *)
(***************************************************************************)
toContainerRulePriority == 512
fromContainerRulePriority == 1536
mainRouteTable == 254

(***************************************************************************)
(* Values                                                                  *)
(***************************************************************************)
\* a nil *net.IPNet, an empty string
NoNet == ""
\* netlink.NewRule() leaves the table unspecified
TableUnspec == -1

\* the pod wired by the plugin invocations of SpecNS
PodAddr == "10.0.0.11/32"
HostVethName == "nic0a1b2c3d"
ContVethName == "eth0"
\* another pod of the node, wired earlier; no invocation modelled names it
OtherAddr == "10.0.0.12/32"

CIDRNames == <<"10.0.0.0/16", "10.1.0.0/16", "10.2.0.0/16", "10.3.0.0/16">>
VPCCIDRs == {CIDRNames[i] : i \in 1..MaxCIDRs}
TunnelCIDR == "10.0.255.0/24"
ValidCIDRs == {CIDRNames[i] : i \in 1..Len(CIDRNames)} \cup {TunnelCIDR}

\* device numbers a pod's NIC may have: 0 is the primary NIC
Tables == {0, 2}

Rule(prio, src, dst, table) ==
    [Priority |-> prio, Src |-> src, Dst |-> dst, Table |-> table]

\* _, podRule.Dst, _ = net.ParseCIDR(cidr): the error is dropped, and a
\* string that is no CIDR leaves Dst nil
ParseCIDR(cidr) == IF cidr \in ValidCIDRs THEN cidr ELSE NoNet

\* the CIDR lists a caller passes: the VPC's first n CIDRs
CIDRLists == {SubSeq(CIDRNames, 1, n) : n \in 0..MaxCIDRs}

Range(s) == {s[i] : i \in 1..Len(s)}

VARIABLES
    \* ---- the kernel ----
    rules,      \* policy routing rules: a set of Rule records
    routes,     \* host routes: a set of [Dst, Link]
    hostLinks,  \* names of the links in the host namespace
    podNS,      \* the pod's namespace: [links, conf]
    \* ---- the plugin invocation in progress, or the last one ----
    pc,         \* its position
    args,       \* its arguments
    log,        \* the netlink calls it made: [call, rule, ret]
    ret,        \* "none" while running, then "ok" or "err"
    pre,        \* the rules when it began
    cidrs,      \* setupNS's vpcCIDRs, the tunnel net appended
    idx,        \* position in run's steps, then in the per-CIDR loop
    trail,      \* the invocations that returned nil in a row: "s" a setupNS,
                \* "st" then a tearDownNS of its address and table, "sts" then
                \* the same setupNS again; "none" otherwise, "off" when not kept
    snap,       \* the setupNS trail began with, and the kernel it left
    \* ---- the daemon ----
    startPC,            \* Start's position
    calls,              \* the calls Start and setup made: [call, arg, ret, table]
    setupRet,           \* what setup returned: "none", "ok" or "err"
    startRet,           \* what Start returned: "none", "ok" or "err"
    reconcilerStarted,  \* go ipamd.StartReconcileIPPool(stopCh) ran
    grpcListening,      \* net.Listen("tcp", ipamdgRPCaddress) succeeded
    cniConfig,          \* the file configFileName
    dataStore,          \* s.dataStore: [nics, ips]
    hostNetwork,        \* SetupHostNetwork succeeded
    nicNetworks,        \* the device numbers SetupNICNetwork succeeded for
    attachedNICs,       \* setup's attachedNICs
    pods,               \* setup's pods
    loopIdx,            \* position in setup's steps and loops
    podTries,           \* retry.Do's attempts at the pod listing
    ruleList,           \* prepareLocalPods's rules
    checks,             \* retry.Do's attempts at the pool check
    sawFree,            \* some pool check found total > assigned
    useExternalSNAT     \* s.networkClient.UseExternalSNAT()

kernelVars == <<rules, routes, hostLinks, podNS>>
nsVars == <<pc, args, log, ret, pre, cidrs, idx, trail, snap>>
wiringVars ==
    <<routes, hostLinks, podNS, pc, args, log, ret, pre, cidrs, idx, trail, snap>>
bootVars ==
    <<startPC, calls, setupRet, startRet, reconcilerStarted, grpcListening,
      cniConfig, dataStore, hostNetwork, nicNetworks, attachedNICs, pods,
      loopIdx, podTries, ruleList, checks, sawFree, useExternalSNAT>>
vars == <<kernelVars, nsVars, bootVars>>

\* datastore.NewDataStore()
NewDataStore == [nics |-> {}, ips |-> {}]

\* the daemon before Start
DaemonNotStarted ==
    /\ startPC = "K8sClient.Start"
    /\ calls = <<>>
    /\ setupRet = "none"
    /\ startRet = "none"
    /\ reconcilerStarted = FALSE
    /\ grpcListening = FALSE
    /\ dataStore = NewDataStore
    /\ hostNetwork = FALSE
    /\ nicNetworks = {}
    /\ attachedNICs = <<>>
    /\ pods = <<>>
    /\ loopIdx = 1
    /\ podTries = 0
    /\ ruleList = {}
    /\ checks = 0
    /\ sawFree = FALSE

\* no plugin invocation yet
DriverIdle ==
    /\ pc = "idle"
    /\ args = [op |-> "none", addr |-> NoNet, table |-> 0, vpcCIDRs |-> <<>>,
               tunnelNet |-> "", useExternalSNAT |-> FALSE]
    /\ log = <<>>
    /\ ret = "none"
    /\ cidrs = <<>>
    /\ idx = 1

(***************************************************************************)
(* The kernel, as netlink shows it.  A rule request matches a rule on      *)
(* priority, source and destination, and on the table when it names one.   *)
(***************************************************************************)
RuleMatches(r, pat) ==
    /\ r.Priority = pat.Priority
    /\ r.Src = pat.Src
    /\ r.Dst = pat.Dst
    /\ (pat.Table = TableUnspec \/ r.Table = pat.Table)

Matching(rs, pat) == {r \in rs : RuleMatches(r, pat)}

\* the returns RuleDel can have, and the rules left for each: with no
\* matching rule the kernel answers "no such rule"
RuleDelOutcomes(rs, pat) ==
    (IF Matching(rs, pat) = {}
     THEN {[ret |-> "ENOENT", rules |-> rs]}
     ELSE {[ret |-> "ok", rules |-> rs \ {r}] : r \in Matching(rs, pat)})
    \cup {[ret |-> "err", rules |-> rs]}

\* the returns RuleAdd can have: "EEXIST" when the rule is there, be it from
\* before or put there by another writer since this invocation last looked
RuleAddOutcomes(rs, r) ==
    (IF r \in rs THEN {} ELSE {[ret |-> "ok", rules |-> rs \cup {r}]})
    \cup {[ret |-> "EEXIST", rules |-> rs \cup {r}],
          [ret |-> "err", rules |-> rs]}

\* deleting one end of a veth pair deletes its peer, the pod-side
\* configuration on it and the routes through it
LinkDelHost(name) ==
    /\ hostLinks' = hostLinks \ {name}
    /\ podNS' = [links |-> {}, conf |-> {}]
    /\ routes' = {rt \in routes : rt.Link # name}

\* the kernel keeps one route per destination
RouteReplaced(rts, dst, link) ==
    {rt \in rts : rt.Dst # dst} \cup {[Dst |-> dst, Link |-> link]}

\* networkutils.DeleteRuleListBySrc: every rule from src goes
DeleteRuleListBySrc(rs, src) == {r \in rs : r.Src # src}

(***************************************************************************)
(* The driver: setupNS                                                     *)
(***************************************************************************)
NoArgs ==
    [op |-> "none", addr |-> NoNet, table |-> 0, vpcCIDRs |-> <<>>,
     tunnelNet |-> "", useExternalSNAT |-> FALSE]

SetupArgs ==
    {[op |-> "setupNS", addr |-> PodAddr, table |-> t, vpcCIDRs |-> cs,
      tunnelNet |-> tn, useExternalSNAT |-> snat] :
        t \in Tables, cs \in CIDRLists, tn \in {"", TunnelCIDR},
        snat \in BOOLEAN}

TeardownArgs ==
    {[op |-> "tearDownNS", addr |-> PodAddr, table |-> t, vpcCIDRs |-> <<>>,
      tunnelNet |-> "", useExternalSNAT |-> FALSE] : t \in Tables}

\* a log entry for a call that names no rule carries NoRule
NoRule == Rule(0, NoNet, NoNet, 0)
Entry(call, rule, r) == [call |-> call, rule |-> rule, ret |-> r]
Logged(call, r) == log' = Append(log, Entry(call, NoRule, r))
LoggedRule(call, rule, r) == log' = Append(log, Entry(call, rule, r))

\* no setupNS to compare with
NoSnap == [args |-> NoArgs, rules |-> {}, routes |-> {}, links |-> {}]

\* return errors.Wrap(err, ...)
Fail ==
    /\ pc' = "idle"
    /\ ret' = "err"
    /\ trail' = IF trail = "off" THEN "off" ELSE "none"
    /\ snap' = NoSnap

\* return nil; a setupNS that does not close a round trip begins a trail
Done ==
    /\ pc' = "idle"
    /\ ret' = "ok"
    /\ IF trail = "off"
       THEN UNCHANGED <<trail, snap>>
       ELSE IF args.op = "setupNS"
       THEN IF trail = "st" /\ args = snap.args
            THEN trail' = "sts" /\ UNCHANGED snap
            ELSE /\ trail' = "s"
                 /\ snap' = [args |-> args, rules |-> rules', routes |-> routes',
                             links |-> hostLinks']
       ELSE IF /\ trail \in {"s", "sts"}
               /\ args.addr = snap.args.addr
               /\ args.table = snap.args.table
            THEN trail' = "st" /\ UNCHANGED snap
            ELSE trail' = "none" /\ snap' = NoSnap

\* a run that hands the host end over before the pod's address and neighbour
RunSteps_MovedEarly ==
    <<"LinkAdd", "LinkByName(host)", "LinkSetUp(host)", "LinkByName(cont)",
      "LinkSetUp(cont)", "RouteReplace(gw)", "AddDefaultRoute", "LinkSetNsFd",
      "AddrAdd", "NeighAdd">>

\* the steps of createVethPairContext.run, in the order of the code
RunSteps ==
    <<"LinkAdd", "LinkByName(host)", "LinkSetUp(host)", "LinkByName(cont)",
      "LinkSetUp(cont)", "RouteReplace(gw)", "AddDefaultRoute", "AddrAdd",
      "NeighAdd", "LinkSetNsFd">>

\* what each step of run leaves configured in the pod's namespace
RunConf(step) ==
    CASE step = "LinkSetUp(host)" -> {"hostUp"}
      [] step = "LinkSetUp(cont)" -> {"contUp"}
      [] step = "RouteReplace(gw)" -> {"gwRoute"}
      [] step = "AddDefaultRoute" -> {"defaultRoute"}
      [] step = "AddrAdd" -> {"addr"}
      [] step = "NeighAdd" -> {"neigh"}
      [] OTHER -> {}

\* setupNS is entered: "Clean up if hostVeth exists"; a lookup that fails,
\* the link being there or not, is taken as no link
SetupNS(a) ==
    /\ pc = "idle"
    /\ args' = a
    /\ pre' = rules
    /\ ret' = "none"
    /\ cidrs' = a.vpcCIDRs
    /\ idx' = 1
    /\ UNCHANGED <<trail, snap>>
    /\ \E r \in (IF HostVethName \in hostLinks THEN {"ok", "err"} ELSE {"err"}) :
        /\ log' = <<Entry("LinkByName(old)", NoRule, r)>>
        /\ pc' = IF r = "ok" THEN "LinkDel" ELSE "WithNetNSPath"
    /\ UNCHANGED kernelVars
    /\ UNCHANGED bootVars

\* LinkDelOld going on to the namespace after a failed deletion
LinkDelOld_ErrorIgnored ==
    /\ pc = "LinkDel"
    /\ \E r \in {"ok", "err"} :
        /\ Logged("LinkDel", r)
        /\ IF r = "ok" THEN LinkDelHost(HostVethName)
           ELSE UNCHANGED <<hostLinks, podNS, routes>>
    /\ pc' = "WithNetNSPath"
    /\ UNCHANGED <<rules, ret, trail, snap, args, pre, cidrs, idx>>
    /\ UNCHANGED bootVars

\* a setupNS that leaves the old host veth where it is
LinkDelOld_Skipped ==
    /\ pc = "LinkDel"
    /\ Logged("LinkDel", "ok")
    /\ pc' = "WithNetNSPath"
    /\ UNCHANGED <<kernelVars, ret, trail, snap, args, pre, cidrs, idx>>
    /\ UNCHANGED bootVars

\* netLink.LinkDel(oldHostVeth)
LinkDelOld ==
    /\ pc = "LinkDel"
    /\ \E r \in {"ok", "err"} :
        /\ Logged("LinkDel", r)
        /\ IF r = "ok"
           THEN /\ LinkDelHost(HostVethName)
                /\ pc' = "WithNetNSPath"
                /\ UNCHANGED <<ret, trail, snap>>
           ELSE /\ Fail
                /\ UNCHANGED <<hostLinks, podNS, routes>>
    /\ UNCHANGED <<rules, args, pre, cidrs, idx>>
    /\ UNCHANGED bootVars

\* ns.WithNetNSPath(netnsPath, createVethContext.run): the namespace is entered
WithNetNSPath ==
    /\ pc = "WithNetNSPath"
    /\ \E r \in {"ok", "err"} :
        /\ Logged("WithNetNSPath", r)
        /\ IF r = "ok"
           THEN pc' = "run" /\ UNCHANGED <<ret, trail, snap>>
           ELSE Fail
    /\ idx' = 1
    /\ UNCHANGED <<kernelVars, args, pre, cidrs>>
    /\ UNCHANGED bootVars

\* one step of createVethPairContext.run; LinkAdd fails when a link of that
\* name is left in the namespace, LinkSetNsFd when the host has a link of
\* the host end's name
RunStep ==
    /\ pc = "run"
    /\ LET step == RunSteps[idx] IN
       \E r \in (IF \/ step = "LinkAdd" /\ podNS.links # {}
                    \/ step = "LinkSetNsFd" /\ HostVethName \in hostLinks
                 THEN {"err"} ELSE {"ok", "err"}) :
        /\ Logged(step, r)
        /\ IF r = "ok"
           THEN /\ podNS' =
                    [links |->
                        IF step = "LinkAdd" THEN {HostVethName, ContVethName}
                        ELSE IF step = "LinkSetNsFd"
                             THEN podNS.links \ {HostVethName}
                             ELSE podNS.links,
                     conf |-> podNS.conf \cup RunConf(step)]
                /\ hostLinks' =
                    IF step = "LinkSetNsFd"
                    THEN hostLinks \cup {HostVethName} ELSE hostLinks
                /\ pc' = IF idx = Len(RunSteps) THEN "LinkByName" ELSE "run"
                /\ idx' = idx + 1
                /\ UNCHANGED <<ret, trail, snap>>
           ELSE /\ Fail
                /\ UNCHANGED <<podNS, hostLinks, idx>>
    /\ UNCHANGED <<rules, routes, args, pre, cidrs>>
    /\ UNCHANGED bootVars

\* hostVeth, err := netLink.LinkByName(hostVethName)
HostLinkByName ==
    /\ pc = "LinkByName"
    /\ \E r \in (IF HostVethName \in hostLinks THEN {"ok", "err"} ELSE {"err"}) :
        /\ Logged("LinkByName", r)
        /\ IF r = "ok" THEN pc' = "LinkSetUp" /\ UNCHANGED <<ret, trail, snap>> ELSE Fail
    /\ UNCHANGED <<kernelVars, args, pre, cidrs, idx>>
    /\ UNCHANGED bootVars

\* netLink.LinkSetUp(hostVeth)
HostLinkSetUp ==
    /\ pc = "LinkSetUp"
    /\ \E r \in {"ok", "err"} :
        /\ Logged("LinkSetUp", r)
        /\ IF r = "ok" THEN pc' = "RouteReplace" /\ UNCHANGED <<ret, trail, snap>> ELSE Fail
    /\ UNCHANGED <<kernelVars, args, pre, cidrs, idx>>
    /\ UNCHANGED bootVars

\* a setupNS that goes on to the rules when the host route failed
HostRouteReplace_ErrorIgnored ==
    /\ pc = "RouteReplace"
    /\ \E r \in {"ok", "err"} :
        /\ Logged("RouteReplace", r)
        /\ routes' = IF r = "ok"
                      THEN RouteReplaced(routes, args.addr, HostVethName)
                      ELSE routes
        /\ pc' = "to.RuleDel"
        /\ UNCHANGED <<ret, trail, snap>>
    /\ UNCHANGED <<rules, hostLinks, podNS, args, pre, cidrs, idx>>
    /\ UNCHANGED bootVars

\* netLink.RouteReplace(&route): the host's on-link /32 route to the pod
HostRouteReplace ==
    /\ pc = "RouteReplace"
    /\ \E r \in {"ok", "err"} :
        /\ Logged("RouteReplace", r)
        /\ IF r = "ok"
           THEN /\ routes' = RouteReplaced(routes, args.addr, HostVethName)
                /\ pc' = "to.RuleDel"
                /\ UNCHANGED <<ret, trail, snap>>
           ELSE /\ Fail
                /\ UNCHANGED routes
    /\ UNCHANGED <<rules, hostLinks, podNS, args, pre, cidrs, idx>>
    /\ UNCHANGED bootVars

\* addContainerRule builds containerRule
ContainerRule(isToContainer, addr, priority, table) ==
    IF isToContainer
    THEN Rule(priority, NoNet, addr, table)
    ELSE Rule(priority, addr, NoNet, table)

\* the rule addContainerRule is called for: the to-pod rule, or the from-pod
\* rule of external-SNAT mode
CalledRule(isToContainer) ==
    IF isToContainer
    THEN ContainerRule(TRUE, args.addr, toContainerRulePriority, mainRouteTable)
    ELSE ContainerRule(FALSE, args.addr, fromContainerRulePriority, args.table)

\* a setupNS that forgets the tunnel net
WithTunnelNet_Forgotten(vpcCIDRs, tunnelNet) == vpcCIDRs

\* if tunnelNet != "" { vpcCIDRs = append(vpcCIDRs, tunnelNet) }
WithTunnelNet(vpcCIDRs, tunnelNet) ==
    IF tunnelNet # "" THEN Append(vpcCIDRs, tunnelNet) ELSE vpcCIDRs

\* where setupNS goes once the to-pod rule is in: "add from-pod rule, only
\* need it when it is not primary ENI"
AfterToContainerRule ==
    IF args.table > 0
    THEN IF args.useExternalSNAT
         THEN /\ pc' = "from.RuleDel"
              /\ UNCHANGED <<ret, cidrs, trail, snap>>
         ELSE /\ cidrs' = WithTunnelNet(args.vpcCIDRs, args.tunnelNet)
              /\ IF cidrs' = <<>>
                 THEN Done
                 ELSE pc' = "cidr.RuleAdd" /\ UNCHANGED <<ret, trail, snap>>
    ELSE /\ Done
         /\ UNCHANGED cidrs

\* addContainerRule: netLink.RuleDel(containerRule); "no such rule" passes
AddContainerRuleDel(isToContainer) ==
    /\ pc = (IF isToContainer THEN "to.RuleDel" ELSE "from.RuleDel")
    /\ \E o \in RuleDelOutcomes(rules, CalledRule(isToContainer)) :
        /\ LoggedRule("RuleDel", CalledRule(isToContainer), o.ret)
        /\ rules' = o.rules
        /\ IF o.ret = "err"
           THEN Fail
           ELSE /\ pc' = (IF isToContainer THEN "to.RuleAdd" ELSE "from.RuleAdd")
                /\ UNCHANGED <<ret, trail, snap>>
    /\ UNCHANGED <<routes, hostLinks, podNS, args, pre, cidrs, idx>>
    /\ UNCHANGED bootVars

\* addContainerRule: netLink.RuleAdd(containerRule); every error fails
AddContainerRuleAdd(isToContainer) ==
    /\ pc = (IF isToContainer THEN "to.RuleAdd" ELSE "from.RuleAdd")
    /\ UNCHANGED <<routes, hostLinks, podNS, args, pre>>
    /\ \E o \in RuleAddOutcomes(rules, CalledRule(isToContainer)) :
        /\ LoggedRule("RuleAdd", CalledRule(isToContainer), o.ret)
        /\ rules' = o.rules
        /\ IF o.ret # "ok"
           THEN Fail /\ UNCHANGED cidrs
           ELSE IF isToContainer
                THEN AfterToContainerRule
                ELSE Done /\ UNCHANGED cidrs
    /\ idx' = 1
    /\ UNCHANGED bootVars

\* the rule of one turn of "for _, cidr := range vpcCIDRs"
PodRule(cidr) ==
    Rule(fromContainerRulePriority, args.addr, ParseCIDR(cidr), args.table)

\* a per-CIDR loop without the IsRuleExistsError test
PodRuleAdd_ExistsFails ==
    /\ pc = "cidr.RuleAdd"
    /\ UNCHANGED <<routes, hostLinks, podNS, args, pre, cidrs>>
    /\ \E o \in RuleAddOutcomes(rules, PodRule(cidrs[idx])) :
        /\ LoggedRule("RuleAdd", PodRule(cidrs[idx]), o.ret)
        /\ rules' = o.rules
        /\ IF o.ret # "ok"
           THEN Fail /\ UNCHANGED idx
           ELSE /\ idx' = idx + 1
                /\ IF idx = Len(cidrs) THEN Done ELSE pc' = "cidr.RuleAdd" /\ UNCHANGED <<ret, trail, snap>>
    /\ UNCHANGED bootVars

\* netLink.RuleAdd(podRule): "rule already exists" passes with a warning
PodRuleAdd ==
    /\ pc = "cidr.RuleAdd"
    /\ UNCHANGED <<routes, hostLinks, podNS, args, pre, cidrs>>
    /\ \E o \in RuleAddOutcomes(rules, PodRule(cidrs[idx])) :
        /\ LoggedRule("RuleAdd", PodRule(cidrs[idx]), o.ret)
        /\ rules' = o.rules
        /\ IF o.ret = "err"
           THEN Fail /\ UNCHANGED idx
           ELSE /\ idx' = idx + 1
                /\ IF idx = Len(cidrs) THEN Done ELSE pc' = "cidr.RuleAdd" /\ UNCHANGED <<ret, trail, snap>>
    /\ UNCHANGED bootVars

(***************************************************************************)
(* The driver: tearDownNS                                                  *)
(***************************************************************************)
\* the to-pod rule tearDownNS asks to delete: it names no table
ToContainerRule(addr) == Rule(toContainerRulePriority, NoNet, addr, TableUnspec)

\* a tearDownNS that deletes the from-pod rules for the main table too
TearDownNS_FromRulesAlways(a) ==
    /\ pc = "idle"
    /\ args' = a
    /\ pre' = rules
    /\ ret' = "none"
    /\ \E o \in RuleDelOutcomes(rules, ToContainerRule(a.addr)) :
        /\ log' = <<Entry("RuleDel", ToContainerRule(a.addr), o.ret)>>
        /\ rules' = o.rules
    /\ pc' = "td.DeleteRuleListBySrc"
    /\ UNCHANGED <<routes, hostLinks, podNS, cidrs, idx, trail, snap>>
    /\ UNCHANGED bootVars

\* tearDownNS is entered: "remove to-pod rule", whose error is only logged
TearDownNS(a) ==
    /\ pc = "idle"
    /\ args' = a
    /\ pre' = rules
    /\ ret' = "none"
    /\ \E o \in RuleDelOutcomes(rules, ToContainerRule(a.addr)) :
        /\ log' = <<Entry("RuleDel", ToContainerRule(a.addr), o.ret)>>
        /\ rules' = o.rules
    /\ pc' = IF a.table > 0 THEN "td.DeleteRuleListBySrc" ELSE "td.RouteDel"
    /\ UNCHANGED <<routes, hostLinks, podNS, cidrs, idx, trail, snap>>
    /\ UNCHANGED bootVars

\* deleteRuleListBySrc(networkClient, *addr): its error fails tearDownNS
TearDownFromRules ==
    /\ pc = "td.DeleteRuleListBySrc"
    /\ \E r \in {"ok", "err"} :
        /\ Logged("DeleteRuleListBySrc", r)
        /\ IF r = "ok"
           THEN /\ rules' = DeleteRuleListBySrc(rules, args.addr)
                /\ pc' = "td.RouteDel"
                /\ UNCHANGED <<ret, trail, snap>>
           ELSE /\ Fail
                /\ UNCHANGED rules
    /\ UNCHANGED <<routes, hostLinks, podNS, args, pre, cidrs, idx>>
    /\ UNCHANGED bootVars

\* a tearDownNS that returns the error of RouteDel
TearDownRoute_ErrorReturned ==
    /\ pc = "td.RouteDel"
    /\ \E r \in (IF \E rt \in routes : rt.Dst = args.addr
                 THEN {"ok", "err"} ELSE {"ESRCH"}) :
        /\ Logged("RouteDel", r)
        /\ routes' = IF r = "ok"
                      THEN {rt \in routes : rt.Dst # args.addr} ELSE routes
        /\ IF r = "ok" THEN Done ELSE Fail
    /\ UNCHANGED <<rules, hostLinks, podNS, args, pre, cidrs, idx>>
    /\ UNCHANGED bootVars

\* "cleanup host route": netLink.RouteDel, whose error is only logged
TearDownRoute ==
    /\ pc = "td.RouteDel"
    /\ \E r \in (IF \E rt \in routes : rt.Dst = args.addr
                 THEN {"ok", "err"} ELSE {"ESRCH"}) :
        /\ Logged("RouteDel", r)
        /\ routes' = IF r = "ok"
                      THEN {rt \in routes : rt.Dst # args.addr} ELSE routes
    /\ Done
    /\ UNCHANGED <<rules, hostLinks, podNS, args, pre, cidrs, idx>>
    /\ UNCHANGED bootVars

(***************************************************************************)
(* SpecNS: the kernel under plugin invocations                             *)
(***************************************************************************)
OtherRules ==
    {Rule(toContainerRulePriority, NoNet, OtherAddr, mainRouteTable),
     Rule(fromContainerRulePriority, OtherAddr, NoNet, 3)}

InitNS ==
    /\ rules = OtherRules
    /\ routes = {[Dst |-> OtherAddr, Link |-> "nic9f8e7d6c"]}
    /\ hostLinks = {"nic9f8e7d6c"}
    /\ podNS = [links |-> {}, conf |-> {}]
    /\ DriverIdle
    /\ pre = OtherRules
    /\ trail = "off"
    /\ snap = NoSnap
    /\ DaemonNotStarted
    /\ cniConfig = "absent"
    /\ useExternalSNAT = FALSE

NextNS ==
    \/ \E a \in SetupArgs : SetupNS(a)
    \/ LinkDelOld
    \/ WithNetNSPath
    \/ RunStep
    \/ HostLinkByName
    \/ HostLinkSetUp
    \/ HostRouteReplace
    \/ \E isToContainer \in BOOLEAN : AddContainerRuleDel(isToContainer)
    \/ \E isToContainer \in BOOLEAN : AddContainerRuleAdd(isToContainer)
    \/ PodRuleAdd
    \/ \E a \in TeardownArgs : TearDownNS(a)
    \/ TearDownFromRules
    \/ TearDownRoute

SpecNS == InitNS /\ [][NextNS]_vars

(***************************************************************************)
(* SpecRT: the same invocations, with the trail of successes kept          *)
(***************************************************************************)
InitRT ==
    /\ rules = OtherRules
    /\ routes = {[Dst |-> OtherAddr, Link |-> "nic9f8e7d6c"]}
    /\ hostLinks = {"nic9f8e7d6c"}
    /\ podNS = [links |-> {}, conf |-> {}]
    /\ DriverIdle
    /\ pre = OtherRules
    /\ trail = "none"
    /\ snap = NoSnap
    /\ DaemonNotStarted
    /\ cniConfig = "absent"
    /\ useExternalSNAT = FALSE

SpecRT == InitRT /\ [][NextNS]_vars

(***************************************************************************)
(* The daemon's world: the cloud's NICs, the orchestrator's pods           *)
(***************************************************************************)
defaultPoolSize == 3
\* retry.Do(5, ...) around the pod listing, retry.Do(10, ...) around the pool check
PodListAttempts == 5
PoolCheckAttempts == 10
DuplicatedNICError == "DuplicatedNICError"
DuplicateIPError == "DuplicateIPError"

\* the NICs the cloud may report; DeviceNumber 0 is one the cloud left unset
NicUniverse ==
    {[ID |-> "nic-0", DeviceNumber |-> 0, IsPrimary |-> TRUE, Address |-> "10.0.0.5"],
     [ID |-> "nic-1", DeviceNumber |-> 2, IsPrimary |-> FALSE, Address |-> "10.0.0.11"],
     [ID |-> "nic-2", DeviceNumber |-> 0, IsPrimary |-> FALSE, Address |-> "10.0.0.12"]}

\* link.Attrs().Index of the link with the NIC's hardware address
LinkIndex(id) == CASE id = "nic-0" -> 1 [] id = "nic-1" -> 2 [] OTHER -> 3

\* IPv4 addresses in lexicographic order
IPOrder == <<"10.0.0.11", "10.0.0.12", "10.0.0.13", "10.0.0.5">>
IPRank(ip) == CHOOSE i \in 1..Len(IPOrder) : IPOrder[i] = ip

\* net.IPNet{IP: net.ParseIP(ip), Mask: net.IPv4Mask(255, 255, 255, 255)}
SrcIPNet(ip) == ip \o "/32"

\* the pods the orchestrator may list: a pod without an IP has IP ""
PodUniverse ==
    {[Name |-> "p1", IP |-> "10.0.0.11"], [Name |-> "p2", IP |-> ""],
     [Name |-> "p2", IP |-> "10.0.0.12"], [Name |-> "p3", IP |-> "10.0.0.13"]}

\* lists of up to n elements of S
RECURSIVE SeqsUpTo(_, _)
SeqsUpTo(S, n) ==
    IF n = 0 THEN {<<>>}
    ELSE LET shorter == SeqsUpTo(S, n - 1) IN
         shorter \cup {Append(q, x) : q \in {t \in shorter : Len(t) = n - 1}, x \in S}

AttachedLists == SeqsUpTo(NicUniverse, MaxNICs)

\* the listings name each pod once
PodListings ==
    {l \in SeqsUpTo(PodUniverse, MaxPods) :
        \A i, j \in 1..Len(l) : i # j => l[i].Name # l[j].Name}

\* s.vpcSubnets(), and networkutils.GetVPNNet(ip)
VpcSubnets == SubSeq(CIDRNames, 1, MaxCIDRs)
GetVPNNet(ip) == TunnelCIDR

Call(call, arg, r) == [call |-> call, arg |-> arg, ret |-> r, table |-> 0]
CallT(call, arg, r, table) == [call |-> call, arg |-> arg, ret |-> r, table |-> table]

(***************************************************************************)
(* The datastore, as the specification gives its operations                *)
(***************************************************************************)
\* add_nic(id, device_index, is_primary) -> Ok | ErrDuplicate
AddNIC(ds, id, dev, primary) ==
    IF \E n \in ds.nics : n.ID = id
    THEN [err |-> DuplicatedNICError, ds |-> ds]
    ELSE [err |-> "",
          ds |-> [ds EXCEPT !.nics =
                    @ \cup {[ID |-> id, DeviceNumber |-> dev, IsPrimary |-> primary]}]]

\* add_ip(nic_id, ip) -> Ok | ErrUnknownNIC | ErrDuplicateIP
AddIPv4AddressFromStore(ds, id, ip) ==
    IF ~\E n \in ds.nics : n.ID = id
    THEN [err |-> "UnknownNICError", ds |-> ds]
    ELSE IF \E a \in ds.ips : a.IP = ip
    THEN [err |-> DuplicateIPError, ds |-> ds]
    ELSE [err |-> "",
          ds |-> [ds EXCEPT !.ips = @ \cup {[IP |-> ip, NIC |-> id, Pod |-> ""]}]]

NicOf(ds, id) == CHOOSE n \in ds.nics : n.ID = id

\* the FREE addresses on non-primary NICs
FreeIPs(ds) == {a \in ds.ips : a.Pod = "" /\ ~NicOf(ds, a.NIC).IsPrimary}

\* assign_pod(pod_info): the pod's address if it has one, else the first FREE
\* address of the first NIC, by device index, that has one
AssignPodIPv4Address(ds, pod) ==
    IF \E a \in ds.ips : a.Pod = pod.Name
    THEN LET a == CHOOSE a \in ds.ips : a.Pod = pod.Name IN
         [err |-> "", ip |-> a.IP, ds |-> ds]
    ELSE IF FreeIPs(ds) = {}
    THEN [err |-> "NoFreeIP", ip |-> "", ds |-> ds]
    ELSE LET first == CHOOSE a \in FreeIPs(ds) :
                \A b \in FreeIPs(ds) :
                    \/ NicOf(ds, a.NIC).DeviceNumber < NicOf(ds, b.NIC).DeviceNumber
                    \/ /\ NicOf(ds, a.NIC).DeviceNumber = NicOf(ds, b.NIC).DeviceNumber
                       /\ IPRank(a.IP) <= IPRank(b.IP)
         IN [err |-> "", ip |-> first.IP,
             ds |-> [ds EXCEPT !.ips =
                        (@ \ {first}) \cup {[first EXCEPT !.Pod = pod.Name]}]]

\* stats() -> (total, assigned), over the non-primary NICs
GetStats(ds) ==
    LET pool == {a \in ds.ips : ~NicOf(ds, a.NIC).IsPrimary} IN
    [total |-> Cardinality(pool),
     assigned |-> Cardinality({a \in pool : a.Pod # ""})]

\* update_rule_list_by_src: the rules from src among ruleList go, and the
\* from-src rules of the SNAT mode come, in the given table
UpdateRuleListBySrc(rs, list, src, vpcCIDRs, requiresSNAT, table) ==
    (rs \ {r \in list : r.Src = src}) \cup
    (IF requiresSNAT
     THEN {Rule(fromContainerRulePriority, src, ParseCIDR(vpcCIDRs[i]), table) :
             i \in 1..Len(vpcCIDRs)}
     ELSE {Rule(fromContainerRulePriority, src, NoNet, table)})

\* retry.Do(attempts, sleep, f) calls f again while it fails and fewer than
\* attempts calls were made
RetryAgain(tries, attempts) == tries < attempts

(***************************************************************************)
(* The daemon: setupNic                                                    *)
(***************************************************************************)
\* s.getNicIndexByIP(ip)
getNicIndexByIP(ds, ip) ==
    IF \E a \in ds.ips : a.IP = ip
    THEN NicOf(ds, (CHOOSE a \in ds.ips : a.IP = ip).NIC).DeviceNumber
    ELSE -1

\* setupNic returning every error of AddNIC, the duplicate too
setupNic_DuplicateFatal(ds, nets, nic, linkRet, netRet) ==
    LET DeviceNumber == IF nic.DeviceNumber <= 0 THEN LinkIndex(nic.ID)
                        ELSE nic.DeviceNumber
        added == AddNIC(ds, nic.ID, DeviceNumber, nic.IsPrimary)
        ip == AddIPv4AddressFromStore(added.ds, nic.ID, nic.Address)
    IN
    IF added.err # ""
    THEN [ret |-> "err", ds |-> ds, nets |-> nets,
          calls |-> <<Call("AddNIC", nic.ID, added.err)>>]
    ELSE IF nic.IsPrimary
    THEN [ret |-> "ok", ds |-> added.ds, nets |-> nets,
          calls |-> <<Call("AddNIC", nic.ID, "ok")>>]
    ELSE [ret |-> "ok", ds |-> ip.ds, nets |-> nets \cup {DeviceNumber},
          calls |-> <<Call("AddNIC", nic.ID, "ok"),
                      CallT("SetupNICNetwork", nic.ID, "ok", DeviceNumber),
                      Call("AddIPv4AddressFromStore", nic.Address, "ok")>>]

\* setupNic adding the address before the NIC's network is set up
setupNic_IPBeforeNetwork(ds, nets, nic, linkRet, netRet) ==
    LET DeviceNumber == IF nic.DeviceNumber <= 0 THEN LinkIndex(nic.ID)
                        ELSE nic.DeviceNumber
        added == AddNIC(ds, nic.ID, DeviceNumber, nic.IsPrimary)
        ip == AddIPv4AddressFromStore(added.ds, nic.ID, nic.Address)
        nicCalls == <<Call("AddNIC", nic.ID, IF added.err = "" THEN "ok" ELSE added.err)>>
        ipCalls == Append(nicCalls,
                          Call("AddIPv4AddressFromStore", nic.Address,
                               IF ip.err = "" THEN "ok" ELSE ip.err))
    IN
    IF nic.IsPrimary
    THEN [ret |-> "ok", ds |-> added.ds, nets |-> nets, calls |-> nicCalls]
    ELSE IF netRet = "err"
    THEN [ret |-> "err", ds |-> ip.ds, nets |-> nets,
          calls |-> Append(ipCalls, CallT("SetupNICNetwork", nic.ID, "err", DeviceNumber))]
    ELSE [ret |-> "ok", ds |-> ip.ds, nets |-> nets \cup {DeviceNumber},
          calls |-> Append(ipCalls, CallT("SetupNICNetwork", nic.ID, "ok", DeviceNumber))]

\* setupNic with the error of SetupNICNetwork dropped: it returns nil
setupNic_NetworkErrorDropped(ds, nets, nic, linkRet, netRet) ==
    [ret |-> "ok", ds |-> ds, nets |-> nets,
     calls |-> <<CallT("SetupNICNetwork", nic.ID, netRet, nic.DeviceNumber)>>]

\* setupNic without the test of nic.IsPrimary: every NIC's network is set up
\* and its address added
setupNic_PrimaryToo(ds, nets, nic, linkRet, netRet) ==
    LET DeviceNumber == IF nic.DeviceNumber <= 0 THEN LinkIndex(nic.ID)
                        ELSE nic.DeviceNumber
        added == AddNIC(ds, nic.ID, DeviceNumber, nic.IsPrimary)
        ip == AddIPv4AddressFromStore(added.ds, nic.ID, nic.Address)
    IN [ret |-> "ok", ds |-> ip.ds, nets |-> nets \cup {DeviceNumber},
        calls |-> <<Call("AddNIC", nic.ID, "ok"),
                    CallT("SetupNICNetwork", nic.ID, "ok", DeviceNumber),
                    Call("AddIPv4AddressFromStore", nic.Address, "ok")>>]

\* s.setupNic(nic) with LinkByMacAddr returning linkRet and SetupNICNetwork
\* returning netRet: what it returns, the datastore and the NIC networks it
\* leaves, the calls it made
setupNic(ds, nets, nic, linkRet, netRet) ==
    LET needLink == nic.DeviceNumber <= 0
        DeviceNumber == IF needLink THEN LinkIndex(nic.ID) ELSE nic.DeviceNumber
        linkCalls == IF needLink THEN <<Call("LinkByMacAddr", nic.ID, linkRet)>> ELSE <<>>
        added == AddNIC(ds, nic.ID, DeviceNumber, nic.IsPrimary)
        nicCalls == Append(linkCalls,
                           Call("AddNIC", nic.ID, IF added.err = "" THEN "ok" ELSE added.err))
        ip == AddIPv4AddressFromStore(added.ds, nic.ID, nic.Address)
    IN
    IF needLink /\ linkRet = "err"
    THEN [ret |-> "err", ds |-> ds, nets |-> nets, calls |-> linkCalls]
    ELSE IF added.err # "" /\ added.err # DuplicatedNICError
    THEN [ret |-> "err", ds |-> added.ds, nets |-> nets, calls |-> nicCalls]
    ELSE IF nic.IsPrimary
    THEN [ret |-> "ok", ds |-> added.ds, nets |-> nets, calls |-> nicCalls]
    ELSE IF netRet = "err"
    THEN [ret |-> "err", ds |-> added.ds, nets |-> nets,
          calls |-> Append(nicCalls, CallT("SetupNICNetwork", nic.ID, "err", DeviceNumber))]
    ELSE [ret |-> "ok", ds |-> ip.ds, nets |-> nets \cup {DeviceNumber},
          calls |-> nicCalls \o
                    <<CallT("SetupNICNetwork", nic.ID, "ok", DeviceNumber),
                      Call("AddIPv4AddressFromStore", nic.Address,
                           IF ip.err = "" THEN "ok" ELSE ip.err)>>]

(***************************************************************************)
(* The daemon: Start, StartIPAMD, setup                                    *)
(***************************************************************************)
\* SetupSteps with the host network set up after the attached NICs are listed
SetupSteps_HostNetworkLate ==
    <<"parseEnv", "prepareCloudClient", "GetInstanceID", "GetNodeVPC",
      "EnsureVxNet", "GetPrimaryNIC", "GetAttachedNICs", "SetupHostNetwork">>

\* setup's calls up to the NIC loop, in the order of the code
SetupSteps ==
    <<"parseEnv", "prepareCloudClient", "GetInstanceID", "GetNodeVPC",
      "EnsureVxNet", "GetPrimaryNIC", "SetupHostNetwork", "GetAttachedNICs">>

\* parseEnv and GetInstanceID return no error
StepOutcomes(step) ==
    IF step \in {"parseEnv", "GetInstanceID"} THEN {"ok"} ELSE {"ok", "err"}

nicLoopVars == <<attachedNICs, dataStore, nicNetworks>>
podVars == <<pods, podTries, ruleList>>
serveVars == <<reconcilerStarted, grpcListening, cniConfig, checks, sawFree>>

\* Start with setup's error ignored: the reconciler is started next
StartIPAMDFails_StartGoesOn(cs) ==
    /\ calls' = calls \o cs
    /\ setupRet' = "err"
    /\ startRet' = startRet
    /\ startPC' = "StartReconcileIPPool"

\* setup made the calls cs and returns the error of the last; StartIPAMD and
\* Start return it
StartIPAMDFails(cs) ==
    /\ calls' = calls \o cs
    /\ setupRet' = "err"
    /\ startRet' = "err"
    /\ startPC' = "returned"

\* s.K8sClient.Start(stopCh)
K8sClientStart ==
    /\ startPC = "K8sClient.Start"
    /\ \E r \in {"ok", "err"} :
        /\ calls' = Append(calls, Call("K8sClient.Start", "", r))
        /\ startPC' = IF r = "ok" THEN "setup" ELSE "returned"
        /\ startRet' = IF r = "ok" THEN startRet ELSE "err"
    /\ UNCHANGED <<setupRet, loopIdx, hostNetwork, nicLoopVars, podVars, serveVars,
                   useExternalSNAT, rules, wiringVars>>

\* where setup goes when i is its position in the NIC loop over l
AfterNIC(l, i) == IF i <= Len(l) THEN "setupNic" ELSE "GetCurrentNodePods"

\* setup, from parseEnv to GetAttachedNICs
SetupStep ==
    /\ startPC = "setup"
    /\ LET step == SetupSteps[loopIdx] IN
       \E r \in StepOutcomes(step) :
        IF r = "err"
        THEN /\ StartIPAMDFails(<<Call(step, "", r)>>)
             /\ UNCHANGED <<loopIdx, hostNetwork, attachedNICs>>
        ELSE /\ calls' = Append(calls, Call(step, "", r))
             /\ hostNetwork' = (hostNetwork \/ step = "SetupHostNetwork")
             /\ IF loopIdx < Len(SetupSteps)
                THEN /\ loopIdx' = loopIdx + 1
                     /\ startPC' = "setup"
                     /\ UNCHANGED attachedNICs
                ELSE \E l \in AttachedLists :
                        /\ attachedNICs' = l
                        /\ loopIdx' = 1
                        /\ startPC' = AfterNIC(l, 1)
             /\ UNCHANGED <<setupRet, startRet>>
    /\ UNCHANGED <<dataStore, nicNetworks, podVars, serveVars, useExternalSNAT,
                   rules, wiringVars>>

\* setup's loop: for _, nic := range attachedNICs { err = s.setupNic(nic) ... }
SetupNicLoop ==
    /\ startPC = "setupNic"
    /\ \E linkRet \in {"ok", "err"}, netRet \in {"ok", "err"} :
        LET nic == attachedNICs[loopIdx]
            res == setupNic(dataStore, nicNetworks, nic, linkRet, netRet)
        IN
        \* outcomes of calls setupNic does not make are not enumerated
        /\ (nic.DeviceNumber > 0 => linkRet = "ok")
        /\ ((nic.IsPrimary \/ (nic.DeviceNumber <= 0 /\ linkRet = "err"))
               => netRet = "ok")
        /\ dataStore' = res.ds
        /\ nicNetworks' = res.nets
        /\ IF res.ret = "err"
           THEN /\ StartIPAMDFails(res.calls)
                /\ UNCHANGED loopIdx
           ELSE /\ calls' = calls \o res.calls
                /\ loopIdx' = loopIdx + 1
                /\ startPC' = AfterNIC(attachedNICs, loopIdx + 1)
                /\ UNCHANGED <<setupRet, startRet>>
    /\ UNCHANGED <<hostNetwork, attachedNICs, podVars, serveVars, useExternalSNAT,
                   rules, wiringVars>>

\* a closure that returns the error of the listing only, whatever IPs the
\* pods have
GetCurrentNodePods_NoIPAccepted ==
    /\ startPC = "GetCurrentNodePods"
    /\ \E r \in {"ok", "err"}, l \in PodListings :
        /\ (r = "err" => l = <<>>)
        /\ pods' = l
        /\ calls' = Append(calls, Call("GetCurrentNodePods", "", r))
        /\ IF r # "ok" /\ RetryAgain(podTries + 1, PodListAttempts)
           THEN /\ podTries' = podTries + 1
                /\ startPC' = "GetCurrentNodePods"
           ELSE /\ podTries' = 0
                /\ startPC' = "prepareLocalPods"
    /\ UNCHANGED <<setupRet, startRet, loopIdx, hostNetwork, nicLoopVars, ruleList,
                   serveVars, useExternalSNAT, rules, wiringVars>>

\* the closure retry.Do(5, ...) calls: the listing, then whether every pod
\* has an IP
GetCurrentNodePods ==
    /\ startPC = "GetCurrentNodePods"
    /\ \E r \in {"ok", "err"}, l \in PodListings :
        LET allPodsHaveAnIP == \A i \in 1..Len(l) : l[i].IP # ""
            closure == IF r = "err" THEN "err"
                       ELSE IF allPodsHaveAnIP THEN "ok" ELSE "Should retry"
        IN
        \* a failed listing returns no pods
        /\ (r = "err" => l = <<>>)
        /\ pods' = l
        /\ calls' = Append(calls, Call("GetCurrentNodePods", "",
                                       IF closure = "ok" THEN "ok" ELSE "err"))
        /\ IF closure # "ok" /\ RetryAgain(podTries + 1, PodListAttempts)
           THEN /\ podTries' = podTries + 1
                /\ startPC' = "GetCurrentNodePods"
           ELSE /\ podTries' = 0
                /\ startPC' = "prepareLocalPods"
    /\ UNCHANGED <<setupRet, startRet, loopIdx, hostNetwork, nicLoopVars, ruleList,
                   serveVars, useExternalSNAT, rules, wiringVars>>

\* setup returns nil, and StartIPAMD with it
SetupReturnsNil ==
    /\ setupRet' = "ok"
    /\ startPC' = "StartReconcileIPPool"

\* prepareLocalPods at position i of its loop over l: the next pod, or the
\* return of nil that setup passes on
AfterPod(l, i) ==
    IF i <= Len(l)
    THEN /\ startPC' = "recover"
         /\ setupRet' = setupRet
    ELSE SetupReturnsNil

\* prepareLocalPods: rules, err := s.networkClient.GetRuleList()
PrepareLocalPods ==
    /\ startPC = "prepareLocalPods"
    /\ \E r \in {"ok", "err"} :
        /\ calls' = Append(calls, Call("GetRuleList", "", r))
        /\ IF r = "err"
           THEN /\ SetupReturnsNil
                /\ UNCHANGED <<ruleList, loopIdx>>
           ELSE /\ ruleList' = rules
                /\ loopIdx' = 1
                /\ AfterPod(pods, 1)
    /\ UNCHANGED <<startRet, hostNetwork, nicLoopVars, pods, podTries, serveVars,
                   useExternalSNAT, rules, wiringVars>>

\* the body of prepareLocalPods's loop, for the pod at loopIdx
RecoverPod ==
    /\ startPC = "recover"
    /\ LET ip == pods[loopIdx]
           assigned == AssignPodIPv4Address(dataStore, ip)
           table == getNicIndexByIP(assigned.ds, ip.IP)
           pbVPCcidrs == Append(VpcSubnets, GetVPNNet(ip.IP))
           assignCall == Call("AssignPodIPv4Address", ip.Name,
                              IF assigned.err = "" THEN "ok" ELSE "err")
       IN
       IF ip.IP = ""
       THEN UNCHANGED <<calls, dataStore, rules>>
       ELSE /\ dataStore' = assigned.ds
            /\ IF table = -1
               THEN /\ calls' = Append(calls, assignCall)
                    /\ UNCHANGED rules
               ELSE \E r \in {"ok", "err"} :
                    /\ calls' = calls \o
                           <<assignCall, CallT("UpdateRuleListBySrc", ip.Name, r, table)>>
                    /\ rules' = IF r = "err" THEN rules
                                ELSE UpdateRuleListBySrc(rules, ruleList, SrcIPNet(ip.IP),
                                         pbVPCcidrs, ~useExternalSNAT, table)
    /\ loopIdx' = loopIdx + 1
    /\ AfterPod(pods, loopIdx + 1)
    /\ UNCHANGED <<startRet, hostNetwork, attachedNICs, nicNetworks, podVars, serveVars,
                   useExternalSNAT, wiringVars>>

\* go ipamd.StartReconcileIPPool(stopCh)
StartReconcileIPPool ==
    /\ startPC = "StartReconcileIPPool"
    /\ reconcilerStarted' = TRUE
    /\ startPC' = "StartGrpcServer"
    \* setup has returned: its locals, and prepareLocalPods's, are gone
    /\ attachedNICs' = <<>>
    /\ pods' = <<>>
    /\ ruleList' = {}
    /\ loopIdx' = 1
    /\ UNCHANGED <<calls, setupRet, startRet, grpcListening, cniConfig, checks, sawFree,
                   hostNetwork, dataStore, nicNetworks, podTries, useExternalSNAT,
                   rules, wiringVars>>

\* Start going on to the pool check when the listener could not be bound
StartGrpcServer_ErrorIgnored ==
    /\ startPC = "StartGrpcServer"
    /\ \E r \in {"ok", "err"} :
        /\ calls' = Append(calls, Call("StartGrpcServer", "", r))
        /\ grpcListening' = (r = "ok")
        /\ startPC' = "check"
        /\ startRet' = startRet
    /\ UNCHANGED <<setupRet, reconcilerStarted, cniConfig, checks, sawFree, loopIdx,
                   hostNetwork, nicLoopVars, podVars, useExternalSNAT, rules, wiringVars>>

\* ipamd.StartGrpcServer(): net.Listen, then go grpcServer.Serve(listener)
StartGrpcServer ==
    /\ startPC = "StartGrpcServer"
    /\ \E r \in {"ok", "err"} :
        /\ calls' = Append(calls, Call("StartGrpcServer", "", r))
        /\ grpcListening' = (r = "ok")
        /\ startPC' = IF r = "ok" THEN "check" ELSE "returned"
        /\ startRet' = IF r = "ok" THEN startRet ELSE "err"
    /\ UNCHANGED <<setupRet, reconcilerStarted, cniConfig, checks, sawFree, loopIdx,
                   hostNetwork, nicLoopVars, podVars, useExternalSNAT, rules, wiringVars>>

\* total > assigned with the opposite of the test's else branch folded in
HasFreeIP_OrNone(stats) == stats.total >= stats.assigned

\* if total, assigned := ipamd.dataStore.GetStats(); total > assigned
HasFreeIP(stats) == stats.total > stats.assigned

\* the file after WriteCNIConfig: os.Create truncates or creates it before the
\* template is executed into it
WriteCNIConfig(file, r) ==
    CASE r = "ok" -> "written"
      [] r = "create fails" -> file
      [] OTHER -> "truncated"

\* the closure retry.Do(10, ...) calls
CheckPool ==
    /\ startPC = "check"
    /\ checks' = checks + 1
    /\ IF HasFreeIP(GetStats(dataStore))
       THEN \E r \in {"ok", "create fails", "execute fails"} :
            /\ sawFree' = TRUE
            /\ cniConfig' = WriteCNIConfig(cniConfig, r)
            /\ IF r = "ok"
               THEN startPC' = "returned" /\ startRet' = "ok"
               ELSE IF RetryAgain(checks + 1, PoolCheckAttempts)
               THEN UNCHANGED <<startPC, startRet>>
               ELSE startPC' = "returned" /\ startRet' = "err"
       ELSE /\ UNCHANGED <<sawFree, cniConfig>>
            /\ IF RetryAgain(checks + 1, PoolCheckAttempts)
               THEN UNCHANGED <<startPC, startRet>>
               ELSE startPC' = "returned" /\ startRet' = "err"
    /\ UNCHANGED <<calls, setupRet, reconcilerStarted, grpcListening, loopIdx,
                   hostNetwork, nicLoopVars, podVars, useExternalSNAT, rules, wiringVars>>

\* a reconciler tick that grows the pool: fewer than pool_size addresses are
\* free, and a NIC the cloud attached is set up and its address added
ReconcileGrow ==
    /\ reconcilerStarted
    /\ startRet # "err"
    /\ LET stats == GetStats(dataStore) IN stats.total - stats.assigned < defaultPoolSize
    /\ \E nic \in {n \in NicUniverse : ~n.IsPrimary} :
        LET res == setupNic(dataStore, nicNetworks, nic, "ok", "ok") IN
        /\ ~\E n \in dataStore.nics : n.ID = nic.ID
        /\ dataStore' = res.ds
        /\ nicNetworks' = res.nets
        /\ calls' = calls \o res.calls
    /\ UNCHANGED <<startPC, setupRet, startRet, loopIdx, hostNetwork, attachedNICs,
                   podVars, serveVars, useExternalSNAT, rules, wiringVars>>

(***************************************************************************)
(* Spec: the daemon starts on a node whose rules a previous run left       *)
(***************************************************************************)
\* the rules of a pod the way a run with external SNAT left them
LeftRules(ip, table) ==
    {Rule(toContainerRulePriority, NoNet, SrcIPNet(ip), mainRouteTable),
     Rule(fromContainerRulePriority, SrcIPNet(ip), NoNet, table)}

\* what the node's rules may be when the daemon starts: none, those of pod
\* p1, and those with the rules of a pod that is gone
StaleRuleSets ==
    {{}, LeftRules("10.0.0.11", 2),
     LeftRules("10.0.0.11", 2) \cup LeftRules("10.0.0.13", 3)}

Init ==
    /\ rules \in StaleRuleSets
    /\ routes = {}
    /\ hostLinks = {}
    /\ podNS = [links |-> {}, conf |-> {}]
    /\ DriverIdle
    /\ pre = rules
    /\ trail = "off"
    /\ snap = NoSnap
    /\ DaemonNotStarted
    /\ cniConfig = "absent"
    /\ useExternalSNAT \in BOOLEAN

Next ==
    \/ K8sClientStart
    \/ SetupStep
    \/ SetupNicLoop
    \/ GetCurrentNodePods
    \/ PrepareLocalPods
    \/ RecoverPod
    \/ StartReconcileIPPool
    \/ StartGrpcServer
    \/ CheckPool
    \/ ReconcileGrow

Spec == Init /\ [][Next]_vars

(***************************************************************************)
(* What the claims about the driver speak of                               *)
(***************************************************************************)
SetupReturned == pc = "idle" /\ args.op = "setupNS"
SetupOK == SetupReturned /\ ret = "ok"

\* the priority-1536 rules from addr among rs
FromPodRules(rs, addr) ==
    {r \in rs : r.Priority = fromContainerRulePriority /\ r.Src = addr}

\* the priority-512 rules to addr among rs
ToPodRules(rs, addr) ==
    {r \in rs : r.Priority = toContainerRulePriority /\ r.Dst = addr}

\* 'to pod_addr lookup main'
ToPodRule(addr) == Rule(toContainerRulePriority, NoNet, addr, mainRouteTable)

\* the from-pod rules the specification asks of setup_ns for arguments a
IntendedFromRules(a) ==
    IF a.table <= 0 THEN {}
    ELSE IF a.useExternalSNAT
    THEN {Rule(fromContainerRulePriority, a.addr, NoNet, a.table)}
    ELSE {Rule(fromContainerRulePriority, a.addr, c, a.table) :
            c \in Range(a.vpcCIDRs) \cup
                  (IF a.tunnelNet # "" THEN {a.tunnelNet} ELSE {})}

\* the rules of priority prio that the calls of l added or found in place
Installed(l, prio) ==
    {l[i].rule : i \in {j \in 1..Len(l) :
        /\ l[j].call = "RuleAdd"
        /\ l[j].ret \in {"ok", "EEXIST"}
        /\ l[j].rule.Priority = prio}}

RuleCalls(l) == {j \in 1..Len(l) : l[j].call \in {"RuleAdd", "RuleDel"}}

\* C7, as stated: after a successful setup_ns with table > 0 the kernel's
\* priority-1536 rules from pod_addr are exactly the single rule of
\* external-SNAT mode or one rule per VPC CIDR and tunnel CIDR, and no
\* others; with table <= 0 setup_ns adds no priority-1536 rule.
C7_FromPodRulesExactly ==
    /\ (SetupOK /\ args.table > 0) =>
            FromPodRules(rules, args.addr) = IntendedFromRules(args)
    /\ (args.op = "setupNS" /\ args.table <= 0) =>
            Installed(log, fromContainerRulePriority) = {}

\* C7, amended: the priority-1536 rules a successful setup_ns adds are
\* exactly the intended ones, and the kernel then holds them together with
\* the from-pod rules it held before the call, none of which is removed;
\* with table <= 0 no priority-1536 rule is added.
C7_FromPodRulesInstalled ==
    /\ SetupOK =>
        /\ Installed(log, fromContainerRulePriority) = IntendedFromRules(args)
        /\ FromPodRules(rules, args.addr) =
                IntendedFromRules(args) \cup FromPodRules(pre, args.addr)
    /\ (args.op = "setupNS" /\ args.table <= 0) =>
        \A j \in RuleCalls(log) :
            log[j].rule.Priority # fromContainerRulePriority

\* C7's case: a setup_ns without external SNAT, with two VPC CIDRs and a
\* tunnel CIDR, returned success on a kernel that held no from-pod rule
C7_Witness ==
    /\ SetupOK
    /\ args.table > 0
    /\ ~args.useExternalSNAT
    /\ Len(args.vpcCIDRs) = 2
    /\ args.tunnelNet # ""
    /\ FromPodRules(pre, args.addr) = {}
    /\ Cardinality(FromPodRules(rules, args.addr)) = 3

\* C8: after every successful setup_ns exactly one priority-512 rule to the
\* pod address exists, 'to pod_addr lookup main', added after the host's
\* on-link route to the pod through the host veth was installed; no rule
\* call is ever made before that route is in, so a failed route leaves the
\* rules as they were.
C8_ToPodRuleAfterHostRoute ==
    /\ SetupOK =>
        /\ ToPodRules(rules, args.addr) = {ToPodRule(args.addr)}
        /\ [Dst |-> args.addr, Link |-> HostVethName] \in routes
        /\ \E i, j \in 1..Len(log) :
            /\ i < j
            /\ log[i] = Entry("RouteReplace", NoRule, "ok")
            /\ log[j] = Entry("RuleAdd", ToPodRule(args.addr), "ok")
    /\ args.op = "setupNS" =>
        /\ \A j \in RuleCalls(log) :
            \E i \in 1..(j - 1) : log[i] = Entry("RouteReplace", NoRule, "ok")
        /\ (\E i \in 1..Len(log) : log[i] = Entry("RouteReplace", NoRule, "err")) =>
            /\ ret = "err"
            /\ rules = pre

\* C8's case: a successful setup_ns for a pod on the primary NIC
C8_Witness ==
    /\ SetupOK
    /\ args.table = 0
    /\ ToPodRule(args.addr) \in rules

\* C9, as stated: every rule setup_ns adds is added right after a delete of
\* the same rule.
C9_EveryRuleDeleteThenAdd ==
    args.op = "setupNS" =>
        \A j \in 1..Len(log) :
            log[j].call = "RuleAdd" =>
                /\ j > 1
                /\ log[j - 1].call = "RuleDel"
                /\ log[j - 1].rule = log[j].rule

\* C9, amended: the to-pod rule and the external-SNAT from-pod rule are
\* added right after a delete of the same rule; a per-CIDR rule is added
\* with no delete before it and "already exists" passes.  A stale copy
\* never fails setup_ns (a delete fails it only on an error other than "no
\* such rule", a per-CIDR add only on one other than "already exists") and
\* a successful setup_ns ends with each intended rule in the kernel.
C9_StaleRuleConverges ==
    /\ args.op = "setupNS" =>
        \A j \in 1..Len(log) :
            log[j].call = "RuleAdd" =>
                /\ j > 1
                /\ IF log[j].rule.Dst \in {NoNet, args.addr}
                   THEN /\ log[j - 1].call = "RuleDel"
                        /\ log[j - 1].rule = log[j].rule
                        /\ log[j - 1].ret \in {"ok", "ENOENT"}
                   ELSE /\ log[j - 1].call = "RuleAdd"
                        /\ log[j - 1].ret \in {"ok", "EEXIST"}
    /\ (SetupReturned /\ ret = "err" /\ Len(log) \in RuleCalls(log)) =>
        LET last == log[Len(log)] IN
        \/ last.ret = "err"
        \/ /\ last.call = "RuleAdd"
           /\ last.ret = "EEXIST"
           /\ last.rule.Dst \in {NoNet, args.addr}
    /\ SetupOK =>
        /\ ToPodRule(args.addr) \in rules
        /\ IntendedFromRules(args) \subseteq rules

\* C9's case: setup_ns returned success on a kernel that already held the
\* to-pod rule and every per-CIDR rule it was to install
C9_Witness ==
    /\ SetupOK
    /\ args.table > 0
    /\ ~args.useExternalSNAT
    /\ ToPodRule(args.addr) \in pre
    /\ IntendedFromRules(args) # {}
    /\ IntendedFromRules(args) \subseteq pre

\* C10: no "rule already exists" answer to a rule add of setup_ns and no "no
\* such rule" answer to a rule delete of setup_ns or teardown_ns makes the
\* operation fail.
C10_ExistsAndNoSuchRuleAbsorbed ==
    (pc = "idle" /\ ret = "err" /\ Len(log) \in RuleCalls(log)) =>
        LET last == log[Len(log)] IN
        /\ ~(last.call = "RuleAdd" /\ last.ret = "EEXIST")
        /\ ~(last.call = "RuleDel" /\ last.ret = "ENOENT")


(***************************************************************************)
(* What the claims about the daemon speak of                               *)
(***************************************************************************)
CallsOf(name) == {i \in 1..Len(calls) : calls[i].call = name}
PoolStats == GetStats(dataStore)

\* C1: the listener is opened, the reconciler started and the file written
\* only after setup returned nil; when setup returned an error none of the
\* three ever happens, and Start has returned the error.
C1_ServingOnlyAfterSetup ==
    /\ (grpcListening \/ reconcilerStarted \/ cniConfig # "absent") => setupRet = "ok"
    /\ setupRet = "err" => (startRet = "err" /\ startPC = "returned")
    /\ startPC \in {"StartReconcileIPPool", "StartGrpcServer", "check"} => setupRet = "ok"

\* setup failed after it had set up the host network and a NIC
C1_Witness ==
    /\ setupRet = "err"
    /\ hostNetwork
    /\ dataStore.nics # {}

\* C2: the file changes only in a pool check that finds total > assigned; a
\* check is first counted as having found a free address only when one is
\* free; there are at most 10 checks; a Start that returns nil has seen a free
\* address and written the file; and a Start that went through its checks
\* without seeing one leaves the file unwritten and returns an error.
C2_WrittenOnlyWithFreeIP ==
    /\ [][(cniConfig' # cniConfig \/ (sawFree' /\ ~sawFree))
            => /\ startPC = "check"
               /\ PoolStats.total > PoolStats.assigned
               /\ checks' = checks + 1]_vars
    /\ [](checks <= PoolCheckAttempts)
    /\ [](startRet = "ok" => (sawFree /\ cniConfig = "written"))
    /\ []((startPC = "returned" /\ grpcListening /\ ~sawFree)
            => (cniConfig = "absent" /\ startRet = "err"
                /\ checks = PoolCheckAttempts))

\* the file is written at the last check retry.Do allows, after checks that
\* found no free address
C2_Witness ==
    /\ cniConfig = "written"
    /\ checks = PoolCheckAttempts
    /\ startRet = "ok"

\* the calls whose error setup returns
FatalCalls ==
    {"prepareCloudClient", "GetNodeVPC", "EnsureVxNet", "GetPrimaryNIC",
     "SetupHostNetwork", "GetAttachedNICs", "LinkByMacAddr", "SetupNICNetwork"}

\* C3: a failed fatal call is the last call of the bootstrap: setup and Start
\* have returned the error, the reconciler and the listener were not started,
\* and the file is not written.
C3_FatalFailureReturnsAtOnce ==
    \A i \in 1..Len(calls) :
        (calls[i].call \in FatalCalls /\ calls[i].ret = "err")
            => /\ i = Len(calls)
               /\ setupRet = "err"
               /\ startRet = "err"
               /\ startPC = "returned"
               /\ ~reconcilerStarted
               /\ ~grpcListening
               /\ cniConfig = "absent"

\* the second attached NIC's network could not be set up
C3_Witness ==
    /\ Len(calls) > 0
    /\ calls[Len(calls)].call = "SetupNICNetwork"
    /\ calls[Len(calls)].ret = "err"
    /\ CallsOf("AddNIC") # {}
    /\ Cardinality(CallsOf("AddNIC")) = 2

\* the bootstrap's calls after K8sClient.Start are steps, in that order, as
\* far as the bootstrap got
StepsInOrder(steps) ==
    \A i \in 1..Len(steps) :
        i + 1 <= Len(calls) => calls[i + 1].call = steps[i]

NicCalls == {"LinkByMacAddr", "AddNIC", "SetupNICNetwork", "AddIPv4AddressFromStore"}
RecoveryCalls == {"GetRuleList", "AssignPodIPv4Address", "UpdateRuleListBySrc"}

\* the phase of the bootstrap a call belongs to
Phase(name) ==
    CASE name \in NicCalls -> 1
      [] name = "GetCurrentNodePods" -> 2
      [] name \in RecoveryCalls -> 3
      [] OTHER -> 0

\* the host network is set up before any NIC is set up or any pod recovered,
\* the NICs are set up before the pods are fetched, the pods are fetched
\* before they are recovered
HostNetworkThenNICsThenPods ==
    /\ \A i \in 1..Len(calls) :
        Phase(calls[i].call) > 0
            => \E j \in 1..(i - 1) :
                calls[j].call = "SetupHostNetwork" /\ calls[j].ret = "ok"
    /\ ~reconcilerStarted
        => \A i, j \in 1..Len(calls) :
            (i < j /\ Phase(calls[i].call) > 0 /\ Phase(calls[j].call) > 0)
                => Phase(calls[i].call) <= Phase(calls[j].call)

\* C4, as claimed: the bootstrap's steps run in the order parse config, cloud
\* adaptor, instance id, VPC, primary NIC, dedicated subnet, host network,
\* attached NICs, then the NICs' setup, the pods' fetch, the pods' recovery.
C4_ClaimedOrder ==
    /\ StepsInOrder(<<"parseEnv", "prepareCloudClient", "GetInstanceID", "GetNodeVPC",
                      "GetPrimaryNIC", "EnsureVxNet", "SetupHostNetwork",
                      "GetAttachedNICs">>)
    /\ HostNetworkThenNICsThenPods

\* C4, amended: the same order with the dedicated subnet ensured before the
\* primary NIC is fetched.
C4_SubnetBeforePrimaryNIC ==
    /\ StepsInOrder(<<"parseEnv", "prepareCloudClient", "GetInstanceID", "GetNodeVPC",
                      "EnsureVxNet", "GetPrimaryNIC", "SetupHostNetwork",
                      "GetAttachedNICs">>)
    /\ HostNetworkThenNICsThenPods

\* a bootstrap that went through every phase: a pod's rules were recomputed
C4_Witness ==
    /\ setupRet = "ok"
    /\ CallsOf("SetupNICNetwork") # {}
    /\ CallsOf("UpdateRuleListBySrc") # {}

\* the pods setup holds when it has returned nil
RecoveredPods == {pods[i] : i \in 1..Len(pods)}

\* C5: when the recovery has completed, every listed pod with an IP was passed
\* to assign_pod and, when a NIC of the datastore carries its IP, its rules
\* were afterwards recomputed in that NIC's table; no pod without an IP was
\* passed to assign_pod. Whatever get_rule_list returned.
C5_EveryPodWithIPRecovered ==
    setupRet = "ok" =>
        \A pod \in RecoveredPods :
            IF pod.IP = ""
            THEN ~\E i \in CallsOf("AssignPodIPv4Address") : calls[i].arg = pod.Name
            ELSE \E i \in CallsOf("AssignPodIPv4Address") :
                    /\ calls[i].arg = pod.Name
                    /\ getNicIndexByIP(dataStore, pod.IP) # -1
                        => \E j \in CallsOf("UpdateRuleListBySrc") :
                            /\ j > i
                            /\ calls[j].arg = pod.Name
                            /\ calls[j].table = getNicIndexByIP(dataStore, pod.IP)

\* the addresses the datastore holds, as /32 networks
StoredAddrs == {SrcIPNet(a.IP) : a \in dataStore.ips}

\* C6: when the recovery has completed, every rule at priority 512 or 1536 is
\* to or from an address the datastore holds.
C6_NoRuleOfAGonePod ==
    setupRet = "ok" =>
        \A r \in rules :
            /\ r.Priority = toContainerRulePriority => r.Dst \in StoredAddrs
            /\ r.Priority = fromContainerRulePriority => r.Src \in StoredAddrs

(***************************************************************************)
(* tearDownNS, and setupNS against tearDownNS                              *)
(***************************************************************************)
TeardownReturned == pc = "idle" /\ args.op = "tearDownNS"
TeardownOK == TeardownReturned /\ ret = "ok"

\* C11: teardown_ns first asks for the to-pod rule's deletion and, whatever
\* the answer, goes on to the from-pod rules (table > 0) and to the host
\* route; it returns an error only when the deletion of the from-pod rules
\* failed; "no such rule", "no such route" and a failed deletion of the to-pod
\* rule or of the host route leave it returning success, so a teardown_ns
\* that finds nothing to delete succeeds.
C11_TeardownToleratesMissing ==
    /\ args.op = "tearDownNS" =>
        /\ Len(log) >= 1
        /\ log[1].call = "RuleDel"
        /\ log[1].rule = ToContainerRule(args.addr)
    /\ TeardownReturned =>
        /\ ret = "err" <=> log[Len(log)] = Entry("DeleteRuleListBySrc", NoRule, "err")
        /\ ret = "ok" => log[Len(log)].call = "RouteDel"
        /\ args.table > 0 => (Len(log) >= 2 /\ log[2].call = "DeleteRuleListBySrc")
        /\ (\A i \in 1..Len(log) : log[i].ret \in {"ok", "ENOENT", "ESRCH"}) => ret = "ok"

\* a teardown_ns that found no to-pod rule, no from-pod rule and no host route
C11_Witness ==
    /\ TeardownOK
    /\ args.table > 0
    /\ ToPodRules(pre, args.addr) = {}
    /\ FromPodRules(pre, args.addr) = {}
    /\ log[1].ret = "ENOENT"
    /\ log[Len(log)] = Entry("RouteDel", NoRule, "ESRCH")

\* a tearDownNS returned nil right after a setupNS of the same address and
\* table had returned nil
TeardownAfterSetup == TeardownOK /\ trail = "st"

HostRoutes(rts, addr) == {rt \in rts : rt.Dst = addr}

\* C12, as stated: a teardown_ns that succeeds after a successful setup_ns of
\* the same address and table leaves no priority-512 rule to the address, no
\* priority-1536 rule from it and no host route to it.
C12_TeardownLeavesNothing ==
    TeardownAfterSetup =>
        /\ ToPodRules(rules, args.addr) = {}
        /\ FromPodRules(rules, args.addr) = {}
        /\ HostRoutes(routes, args.addr) = {}

\* C12, amended: such a teardown_ns leaves no priority-512 rule to the address
\* when the kernel carried out the rule's deletion and no host route when it
\* carried out the route's; a deletion the kernel refused leaves the rule or
\* the route in place, and teardown_ns succeeds all the same.  With table > 0
\* no priority-1536 rule from the address is left; with table <= 0 the
\* from-pod rules are not touched.
C12_TeardownLeavesWhatKernelRefused ==
    TeardownAfterSetup =>
        LET last == log[Len(log)] IN
        /\ log[1].ret # "err" => ToPodRules(rules, args.addr) = {}
        /\ log[1].ret = "err" => ToPodRules(rules, args.addr) = ToPodRules(pre, args.addr)
        /\ last.call = "RouteDel"
        /\ last.ret # "err" => HostRoutes(routes, args.addr) = {}
        /\ last.ret = "err" => HostRoutes(routes, args.addr) # {}
        /\ args.table > 0 => FromPodRules(rules, args.addr) = {}
        /\ args.table <= 0 =>
            /\ FromPodRules(rules, args.addr) = FromPodRules(pre, args.addr)
            /\ \A i \in 1..Len(log) : log[i].call # "DeleteRuleListBySrc"

\* the rules and the route of a pod on a secondary NIC are gone
C12_Witness ==
    /\ TeardownAfterSetup
    /\ args.table > 0
    /\ Cardinality(FromPodRules(pre, args.addr)) = 3
    /\ ToPodRules(pre, args.addr) # {}
    /\ ToPodRules(rules, args.addr) = {}
    /\ FromPodRules(rules, args.addr) = {}
    /\ HostRoutes(routes, args.addr) = {}

\* a setupNS returned nil right after a setupNS with the same arguments and a
\* tearDownNS of its address and table had returned nil, one after the other
RoundTripDone == SetupOK /\ trail = "sts"

\* what of the kernel the round trip is about: the host's links, the host
\* route to the address, the rules to and from the address
PodState(rs, rts, links, addr) ==
    [links |-> links, routes |-> HostRoutes(rts, addr),
     to |-> ToPodRules(rs, addr), from |-> FromPodRules(rs, addr)]

\* C13, as stated: setup_ns(x); teardown_ns(x); setup_ns(x) leaves the host
\* veth, the host route and the priority-512 and priority-1536 rules of the
\* pod address as the first setup_ns(x) left them.
C13_RoundTripSameState ==
    RoundTripDone =>
        PodState(rules, routes, hostLinks, args.addr) =
            PodState(snap.rules, snap.routes, snap.links, args.addr)

\* C13, amended: the round trip leaves the host veth, the host route and the
\* priority-512 rule as the first setup_ns(x) left them; with table > 0 it
\* leaves exactly the intended priority-1536 rules, which is what the first
\* setup_ns(x) left unless the kernel then held other from-pod rules of the
\* address, and with table <= 0 it leaves the from-pod rules as they were.
\* The second setup_ns(x), once its lookup found the old host veth, finds no
\* link left in the pod's namespace, so it fails only where the kernel
\* refuses a call.
C13_RoundTripConverges ==
    /\ RoundTripDone =>
        LET now == PodState(rules, routes, hostLinks, args.addr)
            first == PodState(snap.rules, snap.routes, snap.links, args.addr)
        IN
        /\ now.links = first.links
        /\ now.routes = first.routes
        /\ now.to = first.to
        /\ now.from \subseteq first.from
        /\ now.from = (IF args.table > 0 THEN IntendedFromRules(args) ELSE first.from)
        /\ first.from = IntendedFromRules(args) => now = first
    /\ (trail = "st" /\ args = snap.args /\ pc = "run" /\ idx = 1 /\ log[1].ret = "ok")
        => podNS.links = {}

\* a round trip for a pod on a secondary NIC, with three from-pod rules
C13_Witness ==
    /\ RoundTripDone
    /\ args.table > 0
    /\ Cardinality(IntendedFromRules(args)) = 3
    /\ rules = snap.rules
    /\ routes = snap.routes
    /\ hostLinks = snap.links

(***************************************************************************)
(* setupNic and the pool                                                   *)
(***************************************************************************)
PrimaryNICs == {n \in NicUniverse : n.IsPrimary}

\* C14: no address of the datastore is on a primary NIC; SetupNICNetwork is
\* never called for a primary NIC and AddIPv4AddressFromStore never for a
\* primary NIC's address; a primary NIC that setupNic was called for has its
\* record in the datastore, marked primary.
C14_PrimaryNICNeverInPool ==
    /\ \A a \in dataStore.ips :
        /\ \E n \in dataStore.nics : n.ID = a.NIC /\ ~n.IsPrimary
        /\ ~\E n \in PrimaryNICs : n.ID = a.NIC \/ n.Address = a.IP
    /\ \A i \in CallsOf("SetupNICNetwork") :
        ~\E n \in PrimaryNICs : n.ID = calls[i].arg
    /\ \A i \in CallsOf("AddIPv4AddressFromStore") :
        ~\E n \in PrimaryNICs : n.Address = calls[i].arg
    /\ \A i \in CallsOf("AddNIC") :
        \A n \in PrimaryNICs :
            n.ID = calls[i].arg =>
                \E m \in dataStore.nics : m.ID = n.ID /\ m.IsPrimary

\* the bootstrap went through the primary NIC and a secondary NIC
C14_Witness ==
    /\ setupRet = "ok"
    /\ \E n \in dataStore.nics : n.IsPrimary
    /\ \E n \in dataStore.nics : ~n.IsPrimary
    /\ dataStore.ips # {}

\* the attempts at the pod listing so far
Listings == CallsOf("GetCurrentNodePods")
\* the bootstrap is past the pod listing, in the recovery
InRecovery == startPC \in {"prepareLocalPods", "recover"}

\* C15: the pod listing is attempted at most 5 times; an attempt that lists
\* the pods and finds an IP on each is the last; the bootstrap goes on to the
\* recovery after such an attempt or after the 5th attempt, without failing,
\* and holds pods without an IP only when the 5th attempt failed; those are
\* not passed to assign_pod.
C15_PodListingAtMostFiveTimes ==
    /\ Cardinality(Listings) <= 5
    /\ \A i \in Listings : calls[i].ret = "ok" => \A j \in Listings : j <= i
    /\ Listings # {} => setupRet # "err"
    /\ InRecovery =>
        \/ \E i \in Listings : calls[i].ret = "ok"
        \/ Cardinality(Listings) = 5
    /\ (InRecovery /\ \E i \in 1..Len(pods) : pods[i].IP = "") =>
        /\ Cardinality(Listings) = 5
        /\ \A i \in Listings : calls[i].ret = "err"
    /\ startPC = "GetCurrentNodePods" =>
        /\ Cardinality(Listings) < 5
        /\ \A i \in Listings : calls[i].ret = "err"
    /\ \A i \in CallsOf("AssignPodIPv4Address") :
        \A j \in 1..Len(pods) : pods[j].Name = calls[i].arg => pods[j].IP # ""

\* five attempts failed, the last listing holds a pod without an IP, and the
\* pod with an IP was recovered all the same
C15_Witness ==
    /\ Cardinality(Listings) = 5
    /\ \A i \in Listings : calls[i].ret = "err"
    /\ setupRet = "ok"
    /\ \E i \in 1..Len(pods) : pods[i].IP = ""
    /\ CallsOf("AssignPodIPv4Address") # {}

\* ---- C16 ----
InSetup == args.op = "setupNS" /\ Len(log) > 0
LinkDelCalls == {i \in 1..Len(log) : log[i].call = "LinkDel"}
AfterLookup ==
    {i \in 1..Len(log) : log[i].call \notin {"LinkByName(old)", "LinkDel"}}

\* C16, as stated: whenever setup_ns is about to create the veth pair, or has
\* created it and not yet moved the host end, the host has no link of the
\* chosen host veth name.
C16_OldLinkAlwaysDeleted ==
    (args.op = "setupNS" /\ pc = "run") => HostVethName \notin hostLinks

\* C16: setup_ns first looks the host veth name up; when the lookup finds a
\* link it asks for the deletion next, before anything else, and a lookup
\* that fails is followed by no deletion. After a successful deletion the
\* veth pair is created with no link of that name on the host. After a
\* failed deletion setup_ns has returned an error and made no further call:
\* the namespace was not entered, no veth created, no route and no rule
\* touched.
C16_OldLinkDeletedFirst ==
    InSetup =>
        /\ log[1].call = "LinkByName(old)"
        /\ LinkDelCalls \subseteq {2}
        /\ (log[1].ret = "ok" /\ Len(log) > 1) => log[2].call = "LinkDel"
        /\ log[1].ret = "err" => LinkDelCalls = {}
        /\ (log[1].ret = "ok" /\ pc = "run") => HostVethName \notin hostLinks
        /\ \A i \in LinkDelCalls : log[i].ret = "err" =>
            /\ pc = "idle" /\ ret = "err"
            /\ AfterLookup = {}
            /\ rules = pre
            /\ HostVethName \in hostLinks

\* a setup_ns that returned because the old host veth could not be deleted
C16_Witness ==
    /\ SetupReturned /\ ret = "err"
    /\ Len(log) = 2 /\ log[2].call = "LinkDel" /\ log[2].ret = "err"

\* ---- C17 ----
\* the calls made inside the pod's namespace
InNamespaceCalls ==
    {"LinkAdd", "LinkByName(host)", "LinkSetUp(host)", "LinkByName(cont)",
     "LinkSetUp(cont)", "RouteReplace(gw)", "AddDefaultRoute", "AddrAdd",
     "NeighAdd", "LinkSetNsFd"}

\* what has to be done before the host end is handed over
NeededBeforeMove ==
    {"LinkSetUp(host)", "LinkSetUp(cont)", "RouteReplace(gw)", "AddDefaultRoute",
     "AddrAdd", "NeighAdd"}

NeededConf == {"hostUp", "contUp", "gwRoute", "defaultRoute", "addr", "neigh"}

HostSideCalls == {"LinkByName", "LinkSetUp", "RouteReplace", "RuleAdd", "RuleDel"}

\* C17: the move of the host end to the host namespace is asked for only after
\* both ends were brought up, the on-link route to the gateway and the default
\* route were installed, the pod's address assigned and the neighbour entry
\* added, each with success and in this setup_ns; the pod's namespace then
\* holds all of them. When a step inside the namespace fails, setup_ns has
\* returned an error with that step as its last call: the host end was not
\* moved, no host route and no policy rule was asked for, and the rules are
\* the ones setup_ns found.
C17_MovedOnlyWhenConfigured ==
    InSetup =>
        /\ \A i \in 1..Len(log) : log[i].call = "LinkSetNsFd" =>
            /\ \A s \in NeededBeforeMove \cup {"LinkAdd"} :
                  \E j \in 1..(i - 1) : log[j].call = s /\ log[j].ret = "ok"
            /\ \A j \in 1..(i - 1) :
                  log[j].call \in InNamespaceCalls => log[j].ret = "ok"
        /\ (pc = "run" /\ RunSteps[idx] = "LinkSetNsFd") =>
            /\ NeededConf \subseteq podNS.conf
            /\ podNS.links = {HostVethName, ContVethName}
        /\ \A i \in 1..Len(log) :
            (log[i].call \in InNamespaceCalls /\ log[i].ret = "err") =>
                /\ i = Len(log)
                /\ pc = "idle" /\ ret = "err"
                /\ \A j \in 1..Len(log) : log[j].call \notin HostSideCalls
                /\ \A j \in 1..Len(log) :
                      ~(log[j].call = "LinkSetNsFd" /\ log[j].ret = "ok")
                /\ log[1].ret = "ok" => HostVethName \notin hostLinks
                /\ rules = pre

\* the host end has just been moved, the route and the rules are still to come
C17_Witness ==
    /\ args.op = "setupNS" /\ pc = "LinkByName"
    /\ log[Len(log)] = Entry("LinkSetNsFd", NoRule, "ok")
    /\ HostVethName \in hostLinks
    /\ NeededConf \subseteq podNS.conf

\* ---- C18 ----
\* the NIC setupNic is about to be called for, and whether the datastore has it
CurrentNIC == attachedNICs[loopIdx]
Recorded(nic) == \E n \in dataStore.nics : n.ID = nic.ID
NewCalls == SubSeq(calls', Len(calls) + 1, Len(calls'))

\* the datastore holds each NIC once and each address once
EachOnce ==
    /\ \A n, m \in dataStore.nics : n.ID = m.ID => n = m
    /\ \A a, b \in dataStore.ips : a.IP = b.IP => a = b

\* setupNic called for a NIC the datastore has: AddNIC answers with the
\* duplicate error and, on a secondary NIC whose network was set up,
\* AddIPv4AddressFromStore with the duplicate-IP error; the datastore stays as
\* it was; setup fails only when the link's lookup or SetupNICNetwork failed
SetupNicAgain ==
    (startPC = "setupNic" /\ Recorded(CurrentNIC)) =>
        /\ dataStore' = dataStore
        /\ \A i \in 1..Len(NewCalls) :
            /\ NewCalls[i].call = "AddNIC" => NewCalls[i].ret = DuplicatedNICError
            /\ NewCalls[i].call = "AddIPv4AddressFromStore"
                  => NewCalls[i].ret = DuplicateIPError
        /\ setupRet' = "err" =>
            /\ NewCalls[Len(NewCalls)].call \in {"LinkByMacAddr", "SetupNICNetwork"}
            /\ NewCalls[Len(NewCalls)].ret = "err"
        /\ setupRet' # "err" =>
            /\ startPC' = AfterNIC(attachedNICs, loopIdx + 1)
            /\ \E i \in 1..Len(NewCalls) : NewCalls[i].call = "AddNIC"
            /\ ~CurrentNIC.IsPrimary =>
                  NewCalls[Len(NewCalls)].call = "AddIPv4AddressFromStore"

AddressOnlyOnSetUpNIC ==
    /\ \A a \in dataStore.ips :
        /\ Recorded([ID |-> a.NIC])
        /\ ~NicOf(dataStore, a.NIC).IsPrimary
        /\ NicOf(dataStore, a.NIC).DeviceNumber \in nicNetworks
        /\ \E i \in CallsOf("AddIPv4AddressFromStore") :
            /\ calls[i].arg = a.IP /\ calls[i].ret = "ok"
            /\ calls[i - 1].arg = a.NIC
    /\ \A i \in CallsOf("AddIPv4AddressFromStore") :
        /\ i > 1
        /\ calls[i - 1].call = "SetupNICNetwork" /\ calls[i - 1].ret = "ok"
        /\ calls[i - 1].table \in nicNetworks
    /\ \A i \in CallsOf("SetupNICNetwork") : calls[i].ret = "err" =>
        /\ i = Len(calls)
        /\ setupRet = "err"

\* a step in which SetupNICNetwork failed adds no address
FailedNetworkAddsNoIP ==
    (Len(NewCalls) > 0 /\ NewCalls[Len(NewCalls)].call = "SetupNICNetwork"
        /\ NewCalls[Len(NewCalls)].ret = "err")
    => /\ dataStore'.ips = dataStore.ips
       /\ nicNetworks' = nicNetworks
       /\ setupRet' = "err"

\* C19: in every reachable state each address of the datastore is on a
\* secondary NIC whose routing table SetupNICNetwork set up, and it was added
\* right after that call succeeded; when SetupNICNetwork fails, setupNic
\* returns the error, setup fails with it, and no address is added.
C19_AddressAfterNICNetwork == []AddressOnlyOnSetUpNIC /\ [][FailedNetworkAddsNoIP]_vars

\* SetupNICNetwork failed on the second NIC: the first NIC's address is the
\* only one
C19_Witness ==
    /\ setupRet = "err"
    /\ calls[Len(calls)].call = "SetupNICNetwork" /\ calls[Len(calls)].ret = "err"
    /\ Cardinality(dataStore.ips) = 1
    /\ \A a \in dataStore.ips : a.NIC # calls[Len(calls)].arg

\* ---- C20 ----
ListenerCalls == CallsOf("StartGrpcServer")

\* the file exists, whole or truncated, only with the listener bound and the
\* reconciler started; the pool is not even looked at before; after a failed
\* bind Start has returned the error with no file
FileOnlyWhenServing ==
    /\ (cniConfig # "absent" \/ checks > 0) =>
        /\ grpcListening /\ reconcilerStarted
        /\ \E i \in ListenerCalls : calls[i].ret = "ok"
    /\ grpcListening => reconcilerStarted
    /\ \A i \in ListenerCalls : calls[i].ret = "err" =>
        /\ cniConfig = "absent" /\ checks = 0
        /\ ~grpcListening
        /\ startPC = "returned" /\ startRet = "err"

\* every step that touches the file starts with the listener bound and the
\* reconciler started
WriteWhileServing ==
    cniConfig' # cniConfig => (grpcListening /\ reconcilerStarted /\ startPC = "check")

\* C20: Start writes the CNI config file only after StartGrpcServer bound
\* the listener and after the reconciler was started; when binding the
\* listener fails, Start returns the error and the file is never written.
C20_FileAfterListener == []FileOnlyWhenServing /\ [][WriteWhileServing]_vars

\* Start returned nil: the file is written, the listener bound, the
\* reconciler started
C20_Witness ==
    /\ cniConfig = "written" /\ startRet = "ok"
    /\ grpcListening /\ reconcilerStarted
    /\ \E i \in ListenerCalls : calls[i].ret = "ok"

====
